---- MODULE Spec2Model ----
(***************************************************************************)
(* Model of src/create_agent.py: the LeanIX catalog client (OAuth2 token   *)
(* cache, listing, get-by-id, search with REST fallback), the tool         *)
(* dispatcher execute_tool and the bounded tool loop.                      *)
(*                                                                         *)
(* Strings that the code inspects character by character (display names,   *)
(* queries, ids, field lists) are sequences of one-character strings or of *)
(* runs of unreserved characters.  Time is in whole seconds, as            *)
(* int(time.time()) reads it.                                              *)
(***************************************************************************)
EXTENDS Integers, Sequences, FiniteSets, TLC

VARIABLES
    _token,       \* LeanIXClient._token (None or the cached access token)
    _token_exp,   \* LeanIXClient._token_exp, epoch seconds
    clock,        \* the wall clock read by time.time()
    issued,       \* what the token endpoint knows about the cached token
    last,         \* observation of the last client / dispatcher call
    messages,     \* the conversation of the tool loop
    iter,         \* number of model requests submitted by the loop
    pc,           \* position of the tool loop
    tool_calls,   \* tool calls of the current response not yet executed
    responses,    \* number of tool calls of each response received so far
    requested,    \* the tool calls requested so far: call id and tool name
    submitted     \* number of turns of messages the last model request carried

vars == <<_token, _token_exp, clock, issued, last, messages, iter, pc, tool_calls,
          responses, requested, submitted>>

(***************************************************************************)
(* Bounds of the model.                                                    *)
(***************************************************************************)
MaxClock == 60
TickStep == 10

(***************************************************************************)
(* Program constants.                                                      *)
(***************************************************************************)
ReadMargin == 30
WriteMargin == 20
MinLifetime == 60
DefaultExpiresIn == 300
Timeout == 30

None == "None"
Tokens == {"tokA", "tokB"}

Max(a, b) == IF a >= b THEN a ELSE b
Min(a, b) == IF a <= b THEN a ELSE b

(***************************************************************************)
(* The token endpoint.  A reply is what requests.post / raise_for_status / *)
(* r.json() / payload.get produce: it either fails in one of the ways the  *)
(* code can observe or carries access_token and (perhaps) expires_in.      *)
(* delay is the time the exchange takes: a request that times out takes    *)
(* the timeout, the others are answered within the second.                 *)
(***************************************************************************)
ExpiresIns == {10, 29, 100, 300}

TokenReply(kind, tok, ek, e, d) ==
    [kind |-> kind, access_token |-> tok, exp_kind |-> ek, expires_in |-> e,
     delay |-> d]

TokenFailures ==
    {TokenReply("unreachable", None, "absent", 0, 0),
     TokenReply("timeout", None, "absent", 0, Timeout),
     TokenReply("non2xx", None, "absent", 0, 0),
     TokenReply("badjson", None, "absent", 0, 0),
     TokenReply("ok", None, "absent", 0, 0),
     TokenReply("ok", "tokA", "bad", 0, 0)}

TokenSuccesses ==
    {TokenReply("ok", t, "int", e, 0) : t \in Tokens, e \in ExpiresIns}
    \cup {TokenReply("ok", "tokA", "absent", 0, 0)}

TokenReplies == TokenFailures \cup TokenSuccesses

(***************************************************************************)
(* The client as a value: the fields of LeanIXClient together with the     *)
(* clock and the records kept for observation (log: the calls of           *)
(* _get_access_token, reqs: the HTTP requests sent).  An operation is the  *)
(* set of the outcomes it can have, one for each way the endpoints can     *)
(* answer the requests it sends; E names the replies the endpoints give.   *)
(***************************************************************************)
NoIssue == [known |-> FALSE, at |-> 0, expires_in |-> 0]

World == [token |-> _token, token_exp |-> _token_exp, clock |-> clock,
          issued |-> issued, log |-> <<>>, reqs |-> <<>>]

Raise(w, err) == [w |-> w, raised |-> TRUE, err |-> err, ret |-> [tag |-> "none"]]
Return(w, v) == [w |-> w, raised |-> FALSE, err |-> "", ret |-> v]

TokenRequest == [kind |-> "token"]

TokenCall(now, w, exchanged, raised, ret) ==
    [now |-> now, had |-> w.token, exp_before |-> w.token_exp,
     exchanged |-> exchanged, raised |-> raised, ret |-> ret]

\* requests.post(...), r.raise_for_status(), r.json() of the token exchange
TokenExchangeError(reply) ==
    CASE reply.kind = "unreachable" -> "ConnectionError"
      [] reply.kind = "timeout" -> "Timeout"
      [] reply.kind = "non2xx" -> "HTTPError"
      [] reply.kind = "badjson" -> "JSONDecodeError"
      [] OTHER -> ""

ReuseToken_NoMargin(token, token_exp, now) ==
    token # None /\ now < token_exp

\* the reuse test of _get_access_token
ReuseToken(token, token_exp, now) ==
    token # None /\ now < token_exp - ReadMargin

TokenExpiry_NoFloor(now, expires_in) ==
    now + (expires_in - WriteMargin)

\* the expiry _get_access_token caches
TokenExpiry(now, expires_in) ==
    now + Max(MinLifetime, expires_in - WriteMargin)

TokenExchange_InvalidatesFirst(w, now, reply) ==
    LET sent == [w EXCEPT !.clock = @ + reply.delay,
                          !.reqs = Append(@, TokenRequest),
                          !.token = None,
                          !.token_exp = 0]
        failed(err) ==
            Raise([sent EXCEPT !.log = Append(@, TokenCall(now, w, 1, TRUE, None))], err)
    IN
    IF TokenExchangeError(reply) # ""
    THEN failed(TokenExchangeError(reply))
    ELSE IF reply.access_token = None
    THEN failed("RuntimeError")
    ELSE IF reply.exp_kind = "bad"
    THEN failed("ValueError")
    ELSE
      LET expires_in == IF reply.exp_kind = "absent" THEN DefaultExpiresIn
                        ELSE reply.expires_in
          token == reply.access_token
      IN Return([sent EXCEPT
                   !.token = token,
                   !.token_exp = TokenExpiry(now, expires_in),
                   !.issued = [known |-> reply.exp_kind = "int",
                               at |-> now,
                               expires_in |-> reply.expires_in],
                   !.log = Append(@, TokenCall(now, w, 1, FALSE, token))],
                [tag |-> "token", token |-> token])

\* the exchange of _get_access_token, answered by reply
TokenExchange(w, now, reply) ==
    LET sent == [w EXCEPT !.clock = @ + reply.delay,
                          !.reqs = Append(@, TokenRequest)]
        failed(err) ==
            Raise([sent EXCEPT !.log = Append(@, TokenCall(now, w, 1, TRUE, None))], err)
    IN
    IF TokenExchangeError(reply) # ""
    THEN failed(TokenExchangeError(reply))
    ELSE IF reply.access_token = None
    THEN failed("RuntimeError")
    ELSE IF reply.exp_kind = "bad"
    THEN failed("ValueError")
    ELSE
      LET expires_in == IF reply.exp_kind = "absent" THEN DefaultExpiresIn
                        ELSE reply.expires_in
          token == reply.access_token
      IN Return([sent EXCEPT
                   !.token = token,
                   !.token_exp = TokenExpiry(now, expires_in),
                   !.issued = [known |-> reply.exp_kind = "int",
                               at |-> now,
                               expires_in |-> reply.expires_in],
                   !.log = Append(@, TokenCall(now, w, 1, FALSE, token))],
                [tag |-> "token", token |-> token])

_get_access_token(w, E) ==
    LET now == w.clock IN
    IF ReuseToken(w.token, w.token_exp, now)
    THEN {Return([w EXCEPT !.log = Append(@, TokenCall(now, w, 0, FALSE, w.token))],
                 [tag |-> "token", token |-> w.token])}
    ELSE {TokenExchange(w, now, reply) : reply \in E.token}

(***************************************************************************)
(* Strings.  lower() and the substring test of the fallback filter, and    *)
(* requests.utils.quote (urllib.parse.quote with its default safe="/").    *)
(***************************************************************************)
Lower(c) ==
    CASE c = "S" -> "s"
      [] c = "A" -> "a"
      [] c = "P" -> "p"
      [] c = "F" -> "f"
      [] OTHER -> c

lower(s) == [i \in 1..Len(s) |-> Lower(s[i])]

\* Python's  sub in s  for strings
Contains(sub, s) ==
    \E i \in 0..(Len(s) - Len(sub)) : SubSeq(s, i + 1, i + Len(sub)) = sub

QuoteSafe == {"/"}

PercentEncode(c) ==
    CASE c = "," -> "%2C"
      [] c = "/" -> "%2F"
      [] c = " " -> "%20"
      [] c = "?" -> "%3F"
      [] OTHER -> c

quote(s) == [i \in 1..Len(s) |-> IF s[i] \in QuoteSafe THEN s[i] ELSE PercentEncode(s[i])]

DefaultFields == <<"id", ",", "displayName", ",", "type">>

(***************************************************************************)
(* The catalog endpoints.  A reply to a GET or POST fails in one of the    *)
(* ways requests reports, or carries a JSON body.  The body of a listing   *)
(* is {"data": [...]} ("wrapped"), a bare list ("bare"), an object without *)
(* "data" ("nodata") or an object whose "data" is not a list ("datanotlist").*)
(***************************************************************************)
Record(id, name, type) ==
    [isdict |-> TRUE, has_name |-> TRUE, displayName |-> name, id |-> id, type |-> type]

rSAP == Record("1", <<"S", "A", "P">>, "Application")
rSapX == Record("2", <<"x", "s", "a", "p">>, "ITComponent")
rFoo == Record("3", <<"F", "o", "o">>, "Application")
rAs == Record("4", <<"A", "s">>, "Process")
rNoName == [isdict |-> TRUE, has_name |-> FALSE, displayName |-> <<>>, id |-> "5", type |-> "Application"]
rNotDict == [isdict |-> FALSE, has_name |-> FALSE, displayName |-> <<>>, id |-> "", type |-> ""]

Listings ==
    {<<>>,
     <<rFoo, rAs>>,
     <<rSAP, rFoo, rSapX>>,
     <<rFoo, rNotDict, rSapX, rNoName, rSAP, rSapX>>}

Body(shape, items) == [tag |-> "json", shape |-> shape, items |-> items]

HttpReply(kind, body, d) == [kind |-> kind, body |-> body, delay |-> d]

HttpFailures ==
    {HttpReply("unreachable", Body("none", <<>>), 0),
     HttpReply("timeout", Body("none", <<>>), Timeout),
     HttpReply("non2xx", Body("none", <<>>), 0),
     HttpReply("badjson", Body("none", <<>>), 0)}

ListReplies ==
    HttpFailures \cup
    {HttpReply("ok", Body("wrapped", l), 0) : l \in Listings} \cup
    {HttpReply("ok", Body("bare", <<rSAP, rFoo, rSapX>>), 0),
     HttpReply("ok", Body("nodata", <<>>), 0),
     HttpReply("ok", Body("datanotlist", <<>>), 0)}

ItemReplies == HttpFailures \cup {HttpReply("ok", Body("item", <<rSAP>>), 0)}

\* the query endpoint answers 2xx with results, or 2xx with query errors
\* (the schema of the tenant does not support the query)
GraphqlReplies ==
    HttpFailures \cup
    {HttpReply("ok", Body("gqldata", <<rSAP>>), 0),
     HttpReply("ok", Body("gqlerrors", <<>>), 0)}

\* requests.get / requests.post, r.raise_for_status(), r.json()
HttpError(reply) ==
    CASE reply.kind = "unreachable" -> "ConnectionError"
      [] reply.kind = "timeout" -> "Timeout"
      [] reply.kind = "non2xx" -> "HTTPError"
      [] reply.kind = "badjson" -> "JSONDecodeError"
      [] OTHER -> ""

Send_RetryOnce(w, req, reply) ==
    LET sent == [w EXCEPT !.clock = @ + reply.delay, !.reqs = Append(@, req)]
        again == [sent EXCEPT !.reqs = Append(@, req)]
    IN IF HttpError(reply) # "" THEN Raise(again, HttpError(reply))
       ELSE Return(sent, reply.body)

Send(w, req, reply) ==
    LET sent == [w EXCEPT !.clock = @ + reply.delay, !.reqs = Append(@, req)]
    IN IF HttpError(reply) # "" THEN Raise(sent, HttpError(reply))
       ELSE Return(sent, reply.body)

ListRequest(limit, fields, token) ==
    [kind |-> "list", limit |-> limit, fields |-> quote(fields), bearer |-> token]

ItemRequest(fs_id, fields, token) ==
    [kind |-> "item", id |-> quote(fs_id), fields |-> quote(fields), bearer |-> token]

GraphqlRequest(query, limit, token) ==
    [kind |-> "gql", filter |-> query, first |-> limit, bearer |-> token]

get_fact_sheets(w, limit, fields, E) ==
    UNION {IF t.raised THEN {t}
           ELSE {Send(t.w, ListRequest(limit, fields, t.ret.token), reply) :
                    reply \in E.list} :
           t \in _get_access_token(w, E)}

get_fact_sheet_by_id(w, fs_id, fields, E) ==
    UNION {IF t.raised THEN {t}
           ELSE {Send(t.w, ItemRequest(fs_id, fields, t.ret.token), reply) :
                    reply \in E.item} :
           t \in _get_access_token(w, E)}

_search_fact_sheets_graphql(w, query, limit, E) ==
    UNION {IF t.raised THEN {t}
           ELSE {Send(t.w, GraphqlRequest(query, limit, t.ret.token), reply) :
                    reply \in E.gql} :
           t \in _get_access_token(w, E)}

(***************************************************************************)
(* search_fact_sheets: the structured attempt, and on any exception the    *)
(* REST listing filtered on the client side.                               *)
(***************************************************************************)
FallbackMode == "fallback_rest_client_filter"
FallbackCap == 50
FallbackFloor == 10

FallbackLimit_NoCap(limit) == Max(limit, FallbackFloor)

\* limit=min(50, max(limit, 10)) of the fallback listing
FallbackLimit(limit) == Min(FallbackCap, Max(limit, FallbackFloor))

Project(el) == [id |-> el.id, displayName |-> el.displayName, type |-> el.type]

\* name and query.lower() in name.lower()
Matches(el, query) ==
    /\ el.isdict
    /\ el.has_name
    /\ el.displayName # <<>>
    /\ Contains(lower(query), lower(el.displayName))

\* the for loop over items, from element i on, with the break at limit
RECURSIVE FilterFrom(_, _, _, _, _)
FilterFrom(items, i, results, query, limit) ==
    IF i > Len(items) THEN results
    ELSE IF Matches(items[i], query)
         THEN LET rs == Append(results, Project(items[i])) IN
              IF Len(rs) >= limit THEN rs
              ELSE FilterFrom(items, i + 1, rs, query, limit)
         ELSE FilterFrom(items, i + 1, results, query, limit)

Envelope(query, err, results) ==
    [tag |-> "envelope", mode |-> FallbackMode, query |-> query,
     note |-> <<"GraphQL search failed, fallback used: ", err>>,
     results |-> results]

Caught_OnlyHttp(err) == err = "HTTPError"

\* the except clause of search_fact_sheets: which exceptions it handles
Caught(err) == TRUE

\* an outcome of search_fact_sheets also tells how the structured attempt
\* ended and what the fallback listing returned
Attempt(g) == [attempt |-> [raised |-> g.raised, err |-> g.err, reqs |-> g.w.reqs]]
Listed(l) == [listing |-> [called |-> TRUE, raised |-> l.raised, err |-> l.err,
                            ret |-> l.ret]]
NotListed == [listing |-> [called |-> FALSE]]

\* the body of the except clause, after the structured attempt g raised
Fallback(g, query, limit, E) ==
    UNION {IF l.raised THEN {l @@ Listed(l)}
           ELSE IF l.ret.shape = "bare" THEN {Raise(l.w, "AttributeError") @@ Listed(l)}
           ELSE LET results == IF l.ret.shape = "wrapped"
                               THEN FilterFrom(l.ret.items, 1, <<>>, query, limit)
                               ELSE <<>>
                IN {Return(l.w, Envelope(query, g.err, results)) @@ Listed(l)} :
           l \in get_fact_sheets(g.w, FallbackLimit(limit), DefaultFields, E)}

search_fact_sheets(w, query, limit, E) ==
    UNION {IF g.raised /\ Caught(g.err)
           THEN {l @@ Attempt(g) : l \in Fallback(g, query, limit, E)}
           ELSE {g @@ Attempt(g) @@ NotListed} :
           g \in _search_fact_sheets_graphql(w, query, limit, E)}

(***************************************************************************)
(* State.                                                                  *)
(***************************************************************************)
UserTurn == [role |-> "user"]

NoCall == [op |-> "none"]

Init ==
    /\ _token = None
    /\ _token_exp = 0
    /\ clock = 0
    /\ issued = NoIssue
    /\ last = NoCall
    /\ messages = <<UserTurn>>
    /\ iter = 0
    /\ pc = "request"
    /\ tool_calls = <<>>
    /\ responses = <<>>
    /\ requested = <<>>
    /\ submitted = 0

\* what a call left behind: its outcome, the calls of _get_access_token it
\* made, the requests it sent, and the cache and the clock before it
Observe(op, args, r) ==
    [op |-> op, args |-> args, raised |-> r.raised, err |-> r.err, ret |-> r.ret,
     log |-> r.w.log, reqs |-> r.w.reqs,
     before |-> [token |-> _token, token_exp |-> _token_exp, clock |-> clock]]

Commit(r) ==
    /\ r.w.clock <= MaxClock
    /\ _token' = r.w.token
    /\ _token_exp' = r.w.token_exp
    /\ clock' = r.w.clock
    /\ issued' = r.w.issued

LoopVars == <<messages, iter, pc, tool_calls, responses, requested, submitted>>

(***************************************************************************)
(* The client used directly: time passes, and a caller invokes the         *)
(* operations in any order.                                                *)
(***************************************************************************)
Tick ==
    /\ clock + TickStep <= MaxClock
    /\ clock' = clock + TickStep
    /\ UNCHANGED <<_token, _token_exp, issued, last, LoopVars>>

ClientList(Ls, Fs, E) ==
    \E limit \in Ls, fields \in Fs :
    \E r \in get_fact_sheets(World, limit, fields, E) :
        /\ Commit(r)
        /\ last' = Observe("get_fact_sheets", [limit |-> limit, fields |-> fields], r)
        /\ UNCHANGED LoopVars

ClientGet(Is, Fs, E) ==
    \E fs_id \in Is, fields \in Fs :
    \E r \in get_fact_sheet_by_id(World, fs_id, fields, E) :
        /\ Commit(r)
        /\ last' = Observe("get_fact_sheet_by_id", [id |-> fs_id, fields |-> fields], r)
        /\ UNCHANGED LoopVars

ClientSearch(Qs, Ls, E) ==
    \E query \in Qs, limit \in Ls :
    \E r \in search_fact_sheets(World, query, limit, E) :
        /\ Commit(r)
        /\ last' = Observe("search_fact_sheets", [query |-> query, limit |-> limit], r)
                   @@ [attempt |-> r.attempt, listing |-> r.listing]
        /\ UNCHANGED LoopVars

(***************************************************************************)
(* The token cache under calls of the three operations at any time, with   *)
(* every kind of answer of the token endpoint.                             *)
(***************************************************************************)
OkList == HttpReply("ok", Body("wrapped", <<rSAP, rFoo, rSapX>>), 0)
OkItem == HttpReply("ok", Body("item", <<rSAP>>), 0)
Non2xx == HttpReply("non2xx", Body("none", <<>>), 0)

EnvToken == [token |-> TokenReplies, list |-> {OkList, Non2xx},
             item |-> {OkItem, Non2xx}, gql |-> {Non2xx}]

TokenOk == TokenReply("ok", "tokA", "int", 10, 0)
TokenDenied == TokenReply("non2xx", None, "absent", 0, 0)
GraphqlOk == HttpReply("ok", Body("gqldata", <<rSAP>>), 0)
TimedOut == HttpReply("timeout", Body("none", <<>>), Timeout)

EnvTokenSearch == [token |-> {TokenOk, TokenDenied}, list |-> {OkList},
                   item |-> {OkItem}, gql |-> {GraphqlOk, TimedOut}]

TokenList == ClientList({5}, {DefaultFields}, EnvToken)
TokenGet == ClientGet({<<"4", "2">>}, {DefaultFields}, EnvToken)
TokenSearch == ClientSearch({<<"S", "A", "P">>}, {2}, EnvTokenSearch)

NextToken == Tick \/ TokenList \/ TokenGet \/ TokenSearch

SpecToken == Init /\ [][NextToken]_vars

(***************************************************************************)
(* Search with every kind of answer of the query and listing endpoints;    *)
(* time passes while a request waits for its timeout.                      *)
(***************************************************************************)
Limits == {0, 1, 20, 60}
Queries == {<<"S", "A", "P">>, <<"s", "a">>}

TokenRepliesLean == {TokenDenied, TokenOk}

EnvSearch == [token |-> TokenRepliesLean, list |-> ListReplies,
              item |-> {Non2xx}, gql |-> GraphqlReplies]

Search == ClientSearch(Queries, Limits, EnvSearch)

NextSearch == Search

SpecSearch == Init /\ [][NextSearch]_vars

(***************************************************************************)
(* execute_tool.  An argument payload is a mapping from keys to JSON       *)
(* values; a value is an integer or a string.                              *)
(***************************************************************************)
IntV(n) == [t |-> "int", n |-> n, s |-> <<>>]
StrV(s) == [t |-> "str", n |-> 0, s |-> s]

DigitChars == <<"0", "1", "2", "3", "4", "5", "6", "7", "8", "9">>

DigitValue(c) == CHOOSE d \in 0..9 : DigitChars[d + 1] = c

IsDigits(s) == Len(s) > 0 /\ \A i \in 1..Len(s) : \E d \in 0..9 : DigitChars[d + 1] = s[i]

RECURSIVE ParseInt(_)
ParseInt(s) ==
    IF Len(s) = 0 THEN 0
    ELSE 10 * ParseInt(SubSeq(s, 1, Len(s) - 1)) + DigitValue(s[Len(s)])

RECURSIVE Digits(_)
Digits(n) ==
    IF n < 10 THEN <<DigitChars[n + 1]>>
    ELSE Append(Digits(n \div 10), DigitChars[(n % 10) + 1])

\* int(x): defined on integers and on strings of digits, ValueError otherwise
IntOk(v) == v.t = "int" \/ IsDigits(v.s)
int(v) == IF v.t = "int" THEN v.n ELSE ParseInt(v.s)

\* str(x)
str(v) == IF v.t = "str" THEN v.s ELSE Digits(v.n)

\* arguments.get(key, default)
Get(arguments, key, default) ==
    IF key \in DOMAIN arguments THEN arguments[key] ELSE default

ListTool == "leanix_get_fact_sheets"
GetTool == "leanix_get_fact_sheet_by_id"
SearchTool == "leanix_search_fact_sheets"

DefaultListLimit == 5
DefaultSearchLimit_AsListing == DefaultListLimit

DefaultSearchLimit == 20

UnknownTool(name) == [tag |-> "error", error |-> <<"Unknown tool: ", name>>]

Unknown_Raises(w, name) == {Raise(w, "ValueError")}

\* the last line of execute_tool
Unknown(w, name) == {Return(w, UnknownTool(name))}

execute_tool(w, name, arguments, E) ==
    IF name = ListTool
    THEN LET limit == Get(arguments, "limit", IntV(DefaultListLimit))
             fields == Get(arguments, "fields", StrV(DefaultFields))
         IN IF ~IntOk(limit) THEN {Raise(w, "ValueError")}
            ELSE get_fact_sheets(w, int(limit), str(fields), E)
    ELSE IF name = GetTool
    THEN IF "id" \notin DOMAIN arguments THEN {Raise(w, "KeyError")}
         ELSE get_fact_sheet_by_id(w, str(arguments["id"]),
                                   str(Get(arguments, "fields", StrV(DefaultFields))), E)
    ELSE IF name = SearchTool
    THEN IF "query" \notin DOMAIN arguments THEN {Raise(w, "KeyError")}
         ELSE LET limit == Get(arguments, "limit", IntV(DefaultSearchLimit))
              IN IF ~IntOk(limit) THEN {Raise(w, "ValueError")}
                 ELSE search_fact_sheets(w, str(arguments["query"]), int(limit), E)
    ELSE Unknown(w, name)

(***************************************************************************)
(* The dispatcher called directly with any tool name and payload.          *)
(***************************************************************************)
NoArgs == [k \in {} |-> IntV(0)]

ToolNames == {ListTool, GetTool, SearchTool, "bogus_tool", "leanix_get_factsheets"}

Payloads ==
    {NoArgs,
     [limit |-> IntV(2)],
     [limit |-> StrV(<<"1", "2">>), fields |-> StrV(<<"id">>)],
     [limit |-> StrV(<<"t", "e", "n">>)],
     [id |-> StrV(<<"A", "/", "B">>)],
     [id |-> IntV(42), fields |-> StrV(<<"id">>)],
     [query |-> StrV(<<"S", "A", "P">>)],
     [query |-> StrV(<<"s", "a">>), limit |-> IntV(1)]}

EnvTool == [token |-> {TokenOk, TokenDenied}, list |-> {OkList, Non2xx},
            item |-> {OkItem, Non2xx, TimedOut}, gql |-> {GraphqlOk, Non2xx}]

Dispatch ==
    \E name \in ToolNames, arguments \in Payloads :
    \E r \in execute_tool(World, name, arguments, EnvTool) :
        /\ Commit(r)
        /\ last' = IF "attempt" \in DOMAIN r
                   THEN Observe("execute_tool", [name |-> name, arguments |-> arguments], r)
                        @@ [attempt |-> r.attempt, listing |-> r.listing]
                   ELSE Observe("execute_tool", [name |-> name, arguments |-> arguments], r)
        /\ UNCHANGED LoopVars

NextDispatch == Dispatch

SpecDispatch == Init /\ [][NextDispatch]_vars

(***************************************************************************)
(* The tool loop: for _ in range(8), one model request per iteration, then *)
(* the tool calls of the response one after the other.  An exception of    *)
(* json.loads or execute_tool leaves the loop and ends the program.        *)
(***************************************************************************)
MaxIterations == 8

Call(name, kind, arguments) == [name |-> name, kind |-> kind, arguments |-> arguments]

\* the responses of the model: the function calls of resp.output; kind
\* tells whether call.arguments is a JSON object, empty, or not JSON
Responses ==
    {<<>>,
     <<Call(ListTool, "object", [limit |-> IntV(2)])>>,
     <<Call(SearchTool, "object", [query |-> StrV(<<"S", "A", "P">>), limit |-> IntV(10)]),
       Call("bogus_tool", "empty", NoArgs)>>,
     <<Call(GetTool, "object", [id |-> StrV(<<"4", "2">>)])>>,
     <<Call(GetTool, "empty", NoArgs)>>,
     <<Call(ListTool, "malformed", NoArgs)>>}

\* call ids are unique within a run: iteration and position in the response
WithIds(resp, k) ==
    [i \in 1..Len(resp) |-> resp[i] @@ [id |-> [iteration |-> k, index |-> i]]]

ToolTurn_PositionId(call, result) ==
    [role |-> "tool", tool_call_id |-> [iteration |-> 1, index |-> call.id.index],
     name |-> call.name, content |-> result]

ToolTurn(call, result) ==
    [role |-> "tool", tool_call_id |-> call.id, name |-> call.name, content |-> result]

\* the function calls extracted from resp.output, as requested: id and name
Requests(calls) == [i \in 1..Len(calls) |-> [id |-> calls[i].id, name |-> calls[i].name]]

\* resp = openai_client.responses.create(...); break when it has no tool calls
ModelRequest ==
    /\ pc = "request"
    /\ iter < MaxIterations
    /\ \E resp \in Responses :
        /\ iter' = iter + 1
        /\ tool_calls' = WithIds(resp, iter + 1)
        /\ responses' = Append(responses, Len(resp))
        /\ requested' = requested \o Requests(WithIds(resp, iter + 1))
        /\ submitted' = Len(messages)
        /\ pc' = IF resp = <<>> THEN "done" ELSE "exec"
    /\ UNCHANGED <<_token, _token_exp, clock, issued, last, messages>>

AfterCalls_NoBound(k) == "request"

\* the position of the loop once the calls of a response are all executed
AfterCalls(k) == IF k < MaxIterations THEN "request" ELSE "done"

PositionAfter_FirstCall(rest, k) == AfterCalls(k)

\* where the loop goes after a call: to the next call of the response, or on
PositionAfter(rest, k) == IF rest = <<>> THEN AfterCalls(k) ELSE "exec"

AppendTurn_ReplacesLast(msgs, turn) ==
    IF Len(msgs) > 1 THEN [msgs EXCEPT ![Len(msgs)] = turn] ELSE Append(msgs, turn)

\* messages.append(...)
AppendTurn(msgs, turn) == Append(msgs, turn)

\* one pass of  for call in tool_calls
ExecuteCall ==
    /\ pc = "exec"
    /\ LET call == Head(tool_calls) IN
       IF call.kind = "malformed"
       THEN /\ pc' = "raised"
            /\ last' = [op |-> "json.loads", raised |-> TRUE, err |-> "JSONDecodeError"]
            /\ UNCHANGED <<_token, _token_exp, clock, issued, messages, iter, tool_calls,
                           responses, requested, submitted>>
       ELSE \E r \in execute_tool(World, call.name, call.arguments, EnvTool) :
            /\ Commit(r)
            /\ last' = Observe("execute_tool",
                               [name |-> call.name, arguments |-> call.arguments], r)
            /\ UNCHANGED <<iter, responses, requested, submitted>>
            /\ IF r.raised
               THEN /\ pc' = "raised"
                    /\ UNCHANGED <<messages, tool_calls>>
               ELSE /\ messages' = AppendTurn(messages, ToolTurn(call, r.ret))
                    /\ tool_calls' = Tail(tool_calls)
                    /\ pc' = PositionAfter(Tail(tool_calls), iter)

Next == ModelRequest \/ ExecuteCall

Spec == Init /\ [][Next]_vars

(***************************************************************************)
(* Properties of the token cache (SpecToken).  last.log holds the calls of *)
(* _get_access_token the last operation made, in order: one for a listing  *)
(* or a get-by-id, one or two for a search.                                *)
(***************************************************************************)
Called == last.op # "none"

TokenRequests(reqs) == Cardinality({i \in 1..Len(reqs) : reqs[i].kind = "token"})

\* the call of _get_access_token found a token it may reuse
Reusable(b) == b.token # None /\ b.clock < b.token_exp - 30

ReusableAt(c) == Reusable([token |-> c.had, token_exp |-> c.exp_before, clock |-> c.now])

\* the calls of the log that exchanged a token successfully
ExchangedOk(log) == {i \in 1..Len(log) : ~ReusableAt(log[i]) /\ ~log[i].raised}

\* C1: a token is never used past its true expiry: whenever
\* _get_access_token returns the cached token on the reuse path, now is not
\* later than the instant the token was issued plus the expires_in the
\* endpoint reported for it.
C1_NeverUsedPastExpiry ==
    Called =>
        \A i \in 1..Len(last.log) :
            (/\ ReusableAt(last.log[i])
             /\ issued.known
             /\ \A j \in ExchangedOk(last.log) : j < i)
            => last.log[i].now <= issued.at + issued.expires_in

\* C2: a call of _get_access_token made while a cached token exists and
\* now < _token_exp - 30 returns the cached token and performs no token
\* exchange; a call made when no token is cached or now >= _token_exp - 30
\* performs exactly one exchange; and the cache changes only in a step that
\* is a client operation (no background refresh).
C2_Calls ==
    Called =>
        /\ Len(last.log) >= 1
        /\ last.log[1].now = last.before.clock
        /\ last.log[1].had = last.before.token
        /\ last.log[1].exp_before = last.before.token_exp
        /\ \A i \in 1..Len(last.log) :
              ReusableAt(last.log[i]) =>
                  ~last.log[i].raised /\ last.log[i].ret = last.log[i].had
        /\ TokenRequests(last.reqs)
              = Cardinality({i \in 1..Len(last.log) : ~ReusableAt(last.log[i])})
        /\ (\A i \in 1..Len(last.log) : ReusableAt(last.log[i]))
              => (_token = last.before.token /\ _token_exp = last.before.token_exp)
        /\ ~ReusableAt(last.log[1]) => last.reqs[1].kind = "token"

C2_OnCallingPath ==
    (<<_token, _token_exp, issued>>' # <<_token, _token_exp, issued>>) => last' # last

C2_TokenReuse == [](C2_Calls) /\ [][C2_OnCallingPath]_vars

\* a call at a later time than the exchange reused the cached token
C2_Witness ==
    /\ Called
    /\ Reusable(last.before)
    /\ last.before.clock > issued.at
    /\ TokenRequests(last.reqs) = 0
    /\ ~last.raised

\* C3: after a successful token exchange started at time now, the cached
\* expiry is now + max(60, expires_in - 20), with expires_in taken as 300
\* when the response has none; expires_in = 10 gives now + 60 and
\* expires_in = 300 gives now + 280.
C3_ExpiryClamping ==
    (Called /\ ExchangedOk(last.log) # {}) =>
        LET i == CHOOSE k \in ExchangedOk(last.log) :
                    \A j \in ExchangedOk(last.log) : j <= k
            now == last.log[i].now
            e == IF issued.known THEN issued.expires_in ELSE 300
        IN /\ issued.at = now
           /\ _token = last.log[i].ret
           /\ _token_exp = now + (IF e - 20 > 60 THEN e - 20 ELSE 60)
           /\ (e = 10 => _token_exp = now + 60)
           /\ (e = 300 => _token_exp = now + 280)

\* an exchange at a time after the start that reported expires_in = 10
C3_Witness ==
    /\ Called
    /\ ~Reusable(last.before)
    /\ ~last.log[1].raised
    /\ Len(last.log) = 1
    /\ issued.known /\ issued.expires_in = 10
    /\ last.log[1].now > 0
    /\ _token_exp = last.log[1].now + 60

(***************************************************************************)
(* Properties of search_fact_sheets (SpecSearch).                          *)
(***************************************************************************)
Searched == last.op = "search_fact_sheets"

\* the structured attempt raised: its token acquisition or its POST failed
AttemptFailed == Searched /\ last.attempt.raised

\* C4: an error raised by the structured attempt is never surfaced to the
\* caller of search_fact_sheets: every such failure is caught and converted
\* into an execution of the fallback listing path, so the call either
\* returns the fallback envelope or raises the error of the fallback listing.
C4_AttemptErrorSwallowed ==
    AttemptFailed =>
        /\ last.listing.called
        /\ Len(last.log) = 2
        /\ Len(last.reqs) >= Len(last.attempt.reqs)
        /\ IF last.raised
           THEN \/ last.listing.raised /\ last.log[2].raised
                \/ last.listing.raised /\ last.reqs[Len(last.reqs)].kind = "list"
                                       /\ Len(last.reqs) > Len(last.attempt.reqs)
                \/ ~last.listing.raised
           ELSE last.ret.tag = "envelope"

\* the POST of the structured attempt timed out and the call returned
C4_Witness ==
    /\ AttemptFailed
    /\ last.attempt.err = "Timeout"
    /\ last.attempt.reqs[Len(last.attempt.reqs)].kind = "gql"
    /\ ~last.raised
    /\ last.ret.tag = "envelope"

\* C5: search_fact_sheets falls through to the fallback for every failure
\* category of the structured attempt, including a 2xx response whose body
\* carries query errors instead of results: a value it returns is the
\* result of the structured query or an envelope tagged with the fallback
\* mode.
C5_FallbackOnEveryFailure ==
    (Searched /\ ~last.raised) =>
        \/ last.ret.tag = "envelope" /\ last.ret.mode = "fallback_rest_client_filter"
        \/ last.ret.tag = "json" /\ last.ret.shape = "gqldata"

\* C6: when the structured attempt fails and the fallback listing succeeds,
\* search_fact_sheets(query, limit) with positive limit returns an envelope
\* with the fallback mode, the original query, a note naming the failure
\* category, and as results exactly the first min(limit, number of matches)
\* listed records, in listing order, whose displayName contains query as a
\* case-insensitive substring.
ListedRecords(body) ==
    IF body.shape \in {"wrapped", "bare"} THEN body.items ELSE <<>>

IsMatch(el, query) ==
    /\ el.isdict
    /\ el.has_name
    /\ \E i \in 0..(Len(el.displayName) - Len(query)) :
         \A j \in 1..Len(query) :
            Lower(el.displayName[i + j]) = Lower(query[j])

MatchPositions(items, query) == {i \in 1..Len(items) : IsMatch(items[i], query)}

\* the position in items of the k-th match
RECURSIVE NthMatch(_, _, _)
NthMatch(items, query, k) ==
    LET first == CHOOSE i \in MatchPositions(items, query) :
                    \A j \in MatchPositions(items, query) : i <= j
    IN IF k = 1 THEN first
       ELSE first + NthMatch(SubSeq(items, first + 1, Len(items)), query, k - 1)

FirstMatches(items, query, limit) ==
    LET n == Cardinality(MatchPositions(items, query))
        m == IF limit < n THEN limit ELSE n
    IN [k \in 1..m |->
          LET el == items[NthMatch(items, query, k)]
          IN [id |-> el.id, displayName |-> el.displayName, type |-> el.type]]

C6_FallbackResults ==
    (AttemptFailed /\ last.listing.called /\ ~last.listing.raised /\ last.args.limit > 0)
    => /\ ~last.raised
       /\ last.ret.tag = "envelope"
       /\ last.ret.mode = "fallback_rest_client_filter"
       /\ last.ret.query = last.args.query
       /\ last.ret.note[2] = last.attempt.err
       /\ last.ret.results
             = FirstMatches(ListedRecords(last.listing.ret), last.args.query, last.args.limit)
       /\ Len(last.ret.results) <= last.args.limit

(***************************************************************************)
(* Properties of execute_tool and of the tool loop.                        *)
(***************************************************************************)
Dispatched == last.op = "execute_tool"

KnownTools == {"leanix_get_fact_sheets", "leanix_get_fact_sheet_by_id",
               "leanix_search_fact_sheets"}

IsToolTurn(m) == m.role = "tool"

\* C7: the dispatcher never raises across the dispatch boundary: for every
\* known tool name, when the catalog operation fails, execute_tool returns a
\* structured error payload, a tool-result turn carrying it is appended and
\* the loop goes on to its next step instead of aborting.
C7_DispatcherNeverRaises ==
    (Dispatched /\ last.args.name \in KnownTools /\ Len(last.reqs) > 0) =>
        /\ ~last.raised
        /\ pc # "raised"
        /\ IsToolTurn(messages[Len(messages)])
        /\ messages[Len(messages)].content = last.ret

\* C8: execute_tool called with leanix_get_fact_sheet_by_id and a payload
\* without id (or with leanix_search_fact_sheets and a payload without
\* query) yields a ValidationError-shaped tool result, makes no catalog
\* request, and neither crashes the process nor aborts the loop.
MissingRequired ==
    /\ Dispatched
    /\ \/ last.args.name = "leanix_get_fact_sheet_by_id"
          /\ "id" \notin DOMAIN last.args.arguments
       \/ last.args.name = "leanix_search_fact_sheets"
          /\ "query" \notin DOMAIN last.args.arguments

C8_MissingArgumentResult ==
    MissingRequired =>
        /\ ~last.raised
        /\ last.ret.tag = "error"
        /\ last.reqs = <<>>
        /\ pc # "raised"

\* C9: for every name that is not one of the three registered tool names and
\* for every argument payload, execute_tool returns a payload carrying an
\* explicit unknown-tool error marker, never raises, performs no catalog or
\* token request, and leaves the token cache unchanged.
C9_UnknownTool ==
    (Dispatched /\ last.args.name \notin KnownTools) =>
        /\ ~last.raised
        /\ last.ret.tag = "error"
        /\ last.ret.error = <<"Unknown tool: ", last.args.name>>
        /\ last.reqs = <<>>
        /\ last.log = <<>>
        /\ _token = last.before.token
        /\ _token_exp = last.before.token_exp

\* an unknown tool called with a non-empty payload while a token is cached
C9_Witness ==
    /\ Dispatched
    /\ last.args.name = "bogus_tool"
    /\ DOMAIN last.args.arguments # {}
    /\ last.before.token # None
    /\ _token = last.before.token
    /\ ~last.raised

\* C10: the loop terminates after at most 8 model requests; if the first
\* response contains no tool calls the loop ends after exactly one
\* iteration, and if every response requests a tool call the loop stops
\* after exactly 8 iterations without raising.
Ended == pc \in {"done", "raised"}

C10_LoopTermination ==
    /\ iter <= 8
    /\ Len(responses) = iter
    /\ (Ended /\ responses[1] = 0) => (iter = 1 /\ pc = "done")
    /\ (Ended /\ \A i \in 1..Len(responses) : responses[i] > 0)
          => (iter = 8 /\ pc = "done")

\* C11: within one loop run every ToolCallRequest of a processed response is
\* answered by exactly one tool-result turn appended to the conversation,
\* carrying the request's call id and tool name unchanged; the tool-result
\* turns appear in the order of the requests; no tool-result turn exists
\* whose call id was not requested.  The tool-result turns are, in order,
\* the requests made so far without those still to be executed.
TurnsAfterUser ==
    /\ messages[1] = [role |-> "user"]
    /\ \A i \in 2..Len(messages) : IsToolTurn(messages[i])

DistinctIds(calls) ==
    \A i, j \in 1..Len(calls) : calls[i].id = calls[j].id => i = j

C11_CallIdRoundTrip ==
    LET n == Len(requested) - Len(tool_calls) IN
    /\ TurnsAfterUser
    /\ Len(messages) = 1 + n
    /\ \A i \in 1..n :
          /\ messages[1 + i].tool_call_id = requested[i].id
          /\ messages[1 + i].name = requested[i].name
    /\ DistinctIds(requested)
    /\ pc \in {"request", "done"} => Len(messages) = 1 + Len(requested)

\* a run ended after a response with two tool calls in its second iteration
C11_Witness ==
    /\ pc = "done"
    /\ Len(responses) = 3
    /\ responses[2] = 2
    /\ Len(messages) = 4
    /\ messages[4].tool_call_id = [iteration |-> 2, index |-> 2]
    /\ messages[4].name = "bogus_tool"

\* C12: get_fact_sheet_by_id percent-encodes the id before inserting it into
\* the URL path, so that every reserved character of the id, including "/",
\* is encoded; the id A/B is requested as A%2FB.
ReservedChars == {"/", ",", " ", "?"}

ItemRequestsOf(reqs) == {i \in 1..Len(reqs) : reqs[i].kind = "item"}

C12_IdPercentEncoded ==
    (Dispatched /\ last.args.name = "leanix_get_fact_sheet_by_id") =>
        \A i \in ItemRequestsOf(last.reqs) :
            /\ \A j \in 1..Len(last.reqs[i].id) : last.reqs[i].id[j] \notin ReservedChars
            /\ last.args.arguments["id"].s = <<"A", "/", "B">>
                  => last.reqs[i].id = <<"A", "%2F", "B">>

\* C13: no automatic retries: a list or get-by-id tool call issues at most
\* one token exchange and at most one catalog GET, and a failed or timed-out
\* request is never re-issued; a search tool call issues at most one
\* query-language POST and at most one listing GET, the listing GET only
\* after the structured attempt failed.
Sent(reqs, kind) == Cardinality({i \in 1..Len(reqs) : reqs[i].kind = kind})

C13_NoRetries ==
    Dispatched =>
        /\ last.args.name = "leanix_get_fact_sheets" =>
              /\ Sent(last.reqs, "token") <= 1
              /\ Sent(last.reqs, "list") <= 1
              /\ Len(last.reqs) = Sent(last.reqs, "token") + Sent(last.reqs, "list")
        /\ last.args.name = "leanix_get_fact_sheet_by_id" =>
              /\ Sent(last.reqs, "token") <= 1
              /\ Sent(last.reqs, "item") <= 1
              /\ Len(last.reqs) = Sent(last.reqs, "token") + Sent(last.reqs, "item")
        /\ last.args.name = "leanix_search_fact_sheets" =>
              /\ Sent(last.reqs, "gql") <= 1
              /\ Sent(last.reqs, "list") <= 1
              /\ Sent(last.reqs, "item") = 0
              /\ Sent(last.reqs, "list") = 1 =>
                    /\ "attempt" \in DOMAIN last
                    /\ last.attempt.raised
                    /\ last.reqs[Len(last.reqs)].kind = "list"
                    /\ Len(last.attempt.reqs) < Len(last.reqs)

\* a get-by-id call whose GET timed out: the request was sent once
C13_Witness ==
    /\ Dispatched
    /\ last.args.name = "leanix_get_fact_sheet_by_id"
    /\ last.raised
    /\ last.err = "Timeout"
    /\ Sent(last.reqs, "item") = 1

\* C14: for every argument payload execute_tool passes limit = 5 to listing
\* when limit is absent, limit = 20 to search when limit is absent, and
\* fields = "id,displayName,type" to listing and get-by-id when fields is
\* absent; a present value is passed through, coerced to integer or string.
\* What is passed is read off the request the operation sends (the field
\* list percent-encoded).
Has(key) == key \in DOMAIN last.args.arguments

Arg(key) == last.args.arguments[key]

\* the integer a JSON value of the payloads stands for
IntOf(v) == IF v.t = "int" THEN v.n
            ELSE IF v.s = <<"1", "2">> THEN 12 ELSE -1

EncodedFieldsArg ==
    IF Has("fields") THEN Arg("fields").s ELSE <<"id", "%2C", "displayName", "%2C", "type">>

C14_ArgumentDefaults ==
    Dispatched =>
        \A i \in 1..Len(last.reqs) :
            LET req == last.reqs[i] IN
            /\ (last.args.name = "leanix_get_fact_sheets" /\ req.kind = "list") =>
                  /\ req.limit = (IF Has("limit") THEN IntOf(Arg("limit")) ELSE 5)
                  /\ req.fields = EncodedFieldsArg
            /\ (last.args.name = "leanix_get_fact_sheet_by_id" /\ req.kind = "item") =>
                  /\ req.fields = EncodedFieldsArg
                  /\ Arg("id").t = "int" /\ Arg("id").n = 42 => req.id = <<"4", "2">>
                  /\ Arg("id").t = "str" => req.id = Arg("id").s
            /\ (last.args.name = "leanix_search_fact_sheets" /\ req.kind = "gql") =>
                  /\ req.first = (IF Has("limit") THEN IntOf(Arg("limit")) ELSE 20)
                  /\ req.filter = Arg("query").s

\* a search without limit sent its query with first = 20
C14_Witness ==
    /\ Dispatched
    /\ last.args.name = "leanix_search_fact_sheets"
    /\ ~Has("limit")
    /\ \E i \in 1..Len(last.reqs) : last.reqs[i].kind = "gql" /\ last.reqs[i].first = 20

\* C15: the loop is strictly sequential: whenever a model request is
\* submitted in iteration k > 1, the conversation already contains a
\* tool-result turn for every tool call of the responses of iterations
\* 1..k-1; no model request is submitted while a tool call of an earlier
\* response is unresolved.
AllResolved ==
    /\ tool_calls = <<>>
    /\ Len(messages) = 1 + Len(requested)
    /\ \A i \in 1..Len(requested) :
          /\ IsToolTurn(messages[1 + i])
          /\ messages[1 + i].tool_call_id = requested[i].id

C15_Submit == (iter' # iter) => (iter' = iter + 1 /\ AllResolved)

C15_StrictlySequential == [][C15_Submit]_vars

\* the second model request was submitted after the two calls of the first
\* response were resolved
C15_Witness ==
    /\ iter = 2
    /\ responses[1] = 2
    /\ pc = "exec"
    /\ Len(tool_calls) = responses[2]
    /\ Len(messages) = 3

\* C16: the conversation is append-only within a loop run: every step of the
\* loop leaves the existing turns of messages unchanged and in the same
\* order, and only appends tool-result turns at the end; the initial user
\* turn is always the first turn.
C16_Step ==
    /\ Len(messages') >= Len(messages)
    /\ SubSeq(messages', 1, Len(messages)) = messages
    /\ \A i \in (Len(messages) + 1)..Len(messages') : IsToolTurn(messages'[i])
    /\ messages'[1] = [role |-> "user"]

C16_AppendOnly == [](messages[1] = [role |-> "user"]) /\ [][C16_Step]_vars

\* a conversation with the user turn and three tool-result turns
C16_Witness ==
    /\ Len(messages) = 4
    /\ messages[1] = [role |-> "user"]
    /\ IsToolTurn(messages[2]) /\ IsToolTurn(messages[4])
    /\ pc = "request"

(***************************************************************************)
(* Further properties of search_fact_sheets (SpecSearch).                  *)
(***************************************************************************)
ListRequestsOf(reqs) == {i \in 1..Len(reqs) : reqs[i].kind = "list"}

\* the listing request asks for min(50, max(limit, 10)) records and the
\* three default fields
C17_Parameters ==
    \A i \in ListRequestsOf(last.reqs) :
        LET atleast == IF last.args.limit > 10 THEN last.args.limit ELSE 10 IN
        /\ last.reqs[i].limit = (IF atleast < 50 THEN atleast ELSE 50)
        /\ last.reqs[i].limit >= 10
        /\ last.reqs[i].limit <= 50
        /\ last.reqs[i].fields = <<"id", "%2C", "displayName", "%2C", "type">>

\* C17 as stated: when the structured attempt fails, search_fact_sheets
\* issues exactly one listing request, with limit = min(50, max(limit, 10))
\* and fields id,displayName,type, for every integer limit.
C17_ExactlyOneListing ==
    AttemptFailed => (Sent(last.reqs, "list") = 1 /\ C17_Parameters)

\* C17, amended: when the structured attempt fails, search_fact_sheets
\* issues at most one listing request, and exactly one when the token
\* acquisition of the fallback succeeds; that request has
\* limit = min(50, max(limit, 10)) and fields id,displayName,type, for every
\* integer limit, so it asks for at most 50 and at least 10 records.
C17_FallbackListingBound ==
    AttemptFailed =>
        /\ Len(last.log) = 2
        /\ Sent(last.reqs, "list") = (IF last.log[2].raised THEN 0 ELSE 1)
        /\ C17_Parameters

\* a search with limit 0 whose fallback listed 10 records' worth
C17_Witness ==
    /\ AttemptFailed
    /\ last.args.limit = 0
    /\ Sent(last.reqs, "list") = 1
    /\ last.reqs[Len(last.reqs)].kind = "list"
    /\ last.reqs[Len(last.reqs)].limit = 10

(***************************************************************************)
(* Further properties of the token cache (SpecToken).                      *)
(***************************************************************************)
\* the cache as call i of the log left it
CacheAfter(i) ==
    IF i < Len(last.log)
    THEN [token |-> last.log[i + 1].had, token_exp |-> last.log[i + 1].exp_before]
    ELSE [token |-> _token, token_exp |-> _token_exp]

CacheBefore(i) == [token |-> last.log[i].had, token_exp |-> last.log[i].exp_before]

\* C18: a failed token exchange leaves the cache unchanged: when the token
\* endpoint is unreachable, answers non-2xx, or answers without an
\* access_token, _get_access_token raises and _token and _token_exp keep the
\* values they had before the call; the cache is written only after a
\* successful exchange, and then both fields together.
C18_FailedExchangeKeepsCache ==
    Called =>
        \A i \in 1..Len(last.log) :
            /\ last.log[i].raised =>
                  /\ ~ReusableAt(last.log[i])
                  /\ last.log[i].ret = None
                  /\ CacheAfter(i) = CacheBefore(i)
            /\ CacheAfter(i) # CacheBefore(i) => i \in ExchangedOk(last.log)
            /\ i \in ExchangedOk(last.log) =>
                  /\ CacheAfter(i).token = last.log[i].ret
                  /\ CacheAfter(i).token_exp >= last.log[i].now + 60
            /\ (last.op # "search_fact_sheets" /\ last.log[i].raised) => last.raised

\* a refresh of an expired token failed for want of an access_token and the
\* expired token is still cached
C18_Witness ==
    /\ Called
    /\ last.before.token # None
    /\ ~Reusable(last.before)
    /\ last.log[1].raised
    /\ last.raised
    /\ last.err = "RuntimeError"
    /\ _token = last.before.token
    /\ _token_exp = last.before.token_exp

(***************************************************************************)
(* When search_fact_sheets raises (SpecSearch).                            *)
(***************************************************************************)
\* C19: search_fact_sheets raises if and only if the structured attempt
\* fails and the fallback listing (its token acquisition or its GET) also
\* fails; the error raised is that of the fallback, and no envelope is
\* returned.  When the structured attempt failed at the token exchange, the
\* fallback performs a second token exchange; when it failed after a
\* successful token exchange, the fallback reuses the cached token.
C19_RaisesIffFallbackFails ==
    Searched =>
        /\ last.raised <=>
              (last.attempt.raised /\ last.listing.called /\ last.listing.raised)
        /\ last.raised =>
              /\ last.err = last.listing.err
              /\ last.ret.tag = "none"
        /\ (AttemptFailed /\ last.log[1].raised) =>
              /\ Len(last.log) = 2
              /\ ~ReusableAt(last.log[2])
              /\ Sent(last.reqs, "token") = 2
        /\ (AttemptFailed /\ 1 \in ExchangedOk(last.log)) =>
              /\ Len(last.log) = 2
              /\ ReusableAt(last.log[2])
              /\ Sent(last.reqs, "token") = 1

(***************************************************************************)
(* The end of the tool loop at its bound (Spec).                           *)
(***************************************************************************)
\* the run ended because the bound was reached after a response with calls
Exhausted == pc = "done" /\ iter = 8 /\ responses[8] > 0

C20_AtTheBound ==
    /\ (iter = 8 /\ tool_calls = <<>>) => pc = "done"
    /\ Exhausted =>
          /\ Len(messages) = submitted + responses[8]
          /\ \A i \in 1..responses[8] :
                /\ IsToolTurn(messages[submitted + i])
                /\ messages[submitted + i].tool_call_id = [iteration |-> 8, index |-> i]

C20_NoNinthRequest == (iter = 8) => (iter' = 8 /\ submitted' = submitted)

\* C20: on bound exhaustion, when the response of the 8th iteration contains
\* tool calls, those calls are still executed and their tool-result turns
\* are appended to the conversation, but no further model request is
\* submitted, so the final conversation holds tool results that were never
\* sent to the model; the loop ends in the same way (no error) as when the
\* model answers without tool calls.
C20_BoundExhaustion == [](C20_AtTheBound) /\ [][C20_NoNinthRequest]_vars

\* a run that ended at the bound with the two results of the 8th response
C20_Witness ==
    /\ Exhausted
    /\ responses[8] = 2
    /\ Len(messages) = submitted + 2
    /\ messages[Len(messages)].tool_call_id = [iteration |-> 8, index |-> 2]

====
